---- MODULE Spec2Model ----
(***************************************************************************)
(* Model of check_coverage_json.py: the coverage gate that reads           *)
(* coverage/coverage-final.json (Istanbul format), evaluates every file's  *)
(* statement, branch and function hit counts, prints a report on standard  *)
(* output and sets the process exit status.                                *)
(*                                                                         *)
(* Strings that the program takes apart (file paths) are sequences of      *)
(* one-character strings; strings that it only builds and prints are       *)
(* TLA+ strings.                                                           *)
(***************************************************************************)
EXTENDS Integers, Sequences, FiniteSets, TLC

VARIABLES fileState, data, pc, idx, failed_files, line_idx, out, err, exitStatus

vars == <<fileState, data, pc, idx, failed_files, line_idx, out, err, exitStatus>>

(***************************************************************************)
(* Bounds of the model.                                                    *)
(***************************************************************************)
\* Largest size of a report: its file records, hit counters, empty branch
\* groups and missing keys, all counted.
MaxSize == 4

\* Largest hit count.
MaxCount == 2

HitCounts == 0..MaxCount

(***************************************************************************)
(* The input: the report file.                                             *)
(***************************************************************************)
\* The states of coverage/coverage-final.json when the program opens it.
FileStates == {"absent", "unreadable", "invalid_json", "ok"}

\* The paths used as keys of a report.
PathList ==
    << <<"a",".","j","s">>,
       <<"s","r","c","/","b","a","c","k","e","n","d","/","x",".","j","s">>,
       <<"b","a","c","k","e","n","d","/","l","i","b","/",
         "b","a","c","k","e","n","d","/","y",".","j","s">>,
       <<"m","y","b","a","c","k","e","n","d","/","z",".","j","s">> >>

\* The keys a file record can have.
MetricKeys == {"s", "b", "f", "l"}

\* An id -> count mapping (s, f, l) of size n, as <<present, counts>>: its
\* counts in key order, or a key that the record does not have.
CountMaps(n) ==
    { <<TRUE, c>> : c \in [1..n -> HitCounts] }
    \cup (IF n = 1 THEN { <<FALSE, << >> >> } ELSE {})

\* A branch group of size n: n arms, or no arm at all.
BranchGroups(n) ==
    [1..n -> HitCounts] \cup (IF n = 1 THEN {<< >>} ELSE {})

\* The sequences of branch groups of size n, in key order.
RECURSIVE GroupSeqs(_)
GroupSeqs(n) ==
    IF n = 0 THEN {<< >>}
    ELSE UNION { { <<g>> \o rest : g \in BranchGroups(j), rest \in GroupSeqs(n - j) }
                 : j \in 1..n }

\* The b mappings of size n, as <<present, groups>>.
BranchMaps(n) ==
    { <<TRUE, g>> : g \in GroupSeqs(n) }
    \cup (IF n = 1 THEN { <<FALSE, << >> >> } ELSE {})

\* The file record with the given mappings: keys holds the keys it has.
Coverage(s, b, f, l) ==
    [keys |-> { k \in MetricKeys :
                  \/ k = "s" /\ s[1]
                  \/ k = "b" /\ b[1]
                  \/ k = "f" /\ f[1]
                  \/ k = "l" /\ l[1] },
     s |-> s[2], b |-> b[2], f |-> f[2], l |-> l[2]]

\* The file records of size n.
Coverages(n) ==
    UNION { { Coverage(s, b, f, l) :
                s \in CountMaps(q[1]), b \in BranchMaps(q[2]),
                f \in CountMaps(q[3]), l \in CountMaps(q[4]) }
            : q \in { q \in [1..4 -> 0..n] : q[1] + q[2] + q[3] + q[4] = n } }

\* The sequences of file records of total size at most n, a record of size a
\* counting for 1 + a.
RECURSIVE CoverageSeqs(_)
CoverageSeqs(n) ==
    {<< >>} \cup
    UNION { { <<c>> \o rest : c \in Coverages(a), rest \in CoverageSeqs(n - 1 - a) }
            : a \in 0..(n - 1) }

\* The keys of a report: consecutive paths of PathList, from position r on
\* (the keys of a JSON object are distinct).
PathAt(r, i) == PathList[((r + i - 2) % Len(PathList)) + 1]

\* The parsed reports: (file_path, coverage) pairs in iteration order.
Reports ==
    { [i \in 1..Len(cs) |-> [file_path |-> PathAt(r, i), coverage |-> cs[i]]] :
        r \in 1..Len(PathList),
        cs \in { cs \in CoverageSeqs(MaxSize) : Len(cs) <= Len(PathList) } }

(***************************************************************************)
(* String helpers.                                                         *)
(***************************************************************************)
\* The TLA+ string of a sequence of characters.
RECURSIVE Str(_)
Str(chars) ==
    IF chars = << >> THEN "" ELSE chars[1] \o Str(Tail(chars))

\* str.join: the strings of parts with sep between them.
RECURSIVE Join(_, _)
Join(parts, sep) ==
    IF parts = << >> THEN ""
    ELSE IF Len(parts) = 1 THEN parts[1]
    ELSE parts[1] \o sep \o Join(Tail(parts), sep)

\* str.find: the first position at which sep occurs in str, 0 if none.
Find(str, sep) ==
    LET hits == { i \in 1..(Len(str) - Len(sep) + 1) :
                    SubSeq(str, i, i + Len(sep) - 1) = sep }
    IN  IF hits = {} THEN 0 ELSE CHOOSE i \in hits : \A j \in hits : i <= j

\* str.split(sep): the pieces of str between the occurrences of sep, found
\* from left to right.
RECURSIVE Split(_, _)
Split(str, sep) ==
    LET i == Find(str, sep)
    IN  IF i = 0 THEN <<str>>
        ELSE <<SubSeq(str, 1, i - 1)>>
             \o Split(SubSeq(str, i + Len(sep), Len(str)), sep)

BackendMarker == <<"b","a","c","k","e","n","d","/">>

\* Variant of ShortPath: the split stops at the first occurrence,
\* file_path.split('backend/', 1)[-1].
ShortPath_FirstOccurrence(file_path) ==
    LET i == Find(file_path, BackendMarker)
    IN  IF i = 0 THEN file_path
        ELSE SubSeq(file_path, i + Len(BackendMarker), Len(file_path))

\* file_path.split('backend/')[-1]
ShortPath(file_path) ==
    LET pieces == Split(file_path, BackendMarker)
    IN  pieces[Len(pieces)]

(***************************************************************************)
(* The messages.                                                           *)
(***************************************************************************)
NotFoundMsg == "Coverage file not found."
FailureHeader == "Files with < 100% coverage:"
SuccessMsg == "All files have 100% coverage!"

\* The exit status of sys.exit(1) and of an uncaught exception.
ExitFailure == 1
\* The exit status of a run that returns from check_coverage.
ExitSuccess == 0
\* The exit status of a process that has not ended.
Running == -1

(***************************************************************************)
(* Evaluation of one file record.                                          *)
(***************************************************************************)
\* Variant of CountCovered: the hit counts are added up, sum(v for v in counts).
RECURSIVE CountCovered_SumsHits(_)
CountCovered_SumsHits(counts) ==
    IF counts = << >> THEN 0
    ELSE counts[1] + CountCovered_SumsHits(Tail(counts))

\* Variant of CountCovered: a unit counts as covered from two hits on, v > 1.
RECURSIVE CountCovered_AboveOne(_)
CountCovered_AboveOne(counts) ==
    IF counts = << >> THEN 0
    ELSE (IF counts[1] > 1 THEN 1 ELSE 0) + CountCovered_AboveOne(Tail(counts))

\* sum(1 for v in counts if v > 0)
RECURSIVE CountCovered(_)
CountCovered(counts) ==
    IF counts = << >> THEN 0
    ELSE (IF counts[1] > 0 THEN 1 ELSE 0) + CountCovered(Tail(counts))

\* b_total after the loop over the branch groups.
RECURSIVE BranchTotal(_)
BranchTotal(groups) ==
    IF groups = << >> THEN 0
    ELSE Len(groups[1]) + BranchTotal(Tail(groups))

\* b_covered after the loop over the branch groups.
RECURSIVE BranchCovered(_)
BranchCovered(groups) ==
    IF groups = << >> THEN 0
    ELSE CountCovered(groups[1]) + BranchCovered(Tail(groups))

\* f"<name>: {covered}/{total}"
Label(name, covered, total) ==
    name \o ": " \o ToString(covered) \o "/" \o ToString(total)

\* Variant of CategoryDetails: a category without units fails the file.
CategoryDetails_EmptyFails(name, covered, total) ==
    IF total = 0 \/ covered < total
    THEN <<Label(name, covered, total)>>
    ELSE << >>

\* The details entry of one category: appended only when the category has
\* units and not all of them are covered.
CategoryDetails(name, covered, total) ==
    IF total > 0 /\ covered < total
    THEN <<Label(name, covered, total)>>
    ELSE << >>

\* The key whose lookup raises KeyError, in the order of the lookups.
MissingKey(coverage) ==
    IF "s" \notin coverage.keys THEN "s"
    ELSE IF "b" \notin coverage.keys THEN "b"
    ELSE IF "f" \notin coverage.keys THEN "f"
    ELSE "none"

\* Variant of Details: the l collection is evaluated as a fourth category.
Details_WithLines(coverage) ==
    CategoryDetails("Statements", CountCovered(coverage.s), Len(coverage.s))
    \o CategoryDetails("Branches", BranchCovered(coverage.b), BranchTotal(coverage.b))
    \o CategoryDetails("Functions", CountCovered(coverage.f), Len(coverage.f))
    \o CategoryDetails("Lines", CountCovered(coverage.l), Len(coverage.l))

\* Variant of Details: the branches are evaluated before the statements.
Details_BranchesFirst(coverage) ==
    CategoryDetails("Branches", BranchCovered(coverage.b), BranchTotal(coverage.b))
    \o CategoryDetails("Statements", CountCovered(coverage.s), Len(coverage.s))
    \o CategoryDetails("Functions", CountCovered(coverage.f), Len(coverage.f))

\* The details list of a file record after the three categories.
Details(coverage) ==
    LET s_total == Len(coverage.s)
        s_covered == CountCovered(coverage.s)
        b_total == BranchTotal(coverage.b)
        b_covered == BranchCovered(coverage.b)
        f_total == Len(coverage.f)
        f_covered == CountCovered(coverage.f)
    IN  CategoryDetails("Statements", s_covered, s_total)
        \o CategoryDetails("Branches", b_covered, b_total)
        \o CategoryDetails("Functions", f_covered, f_total)

\* is_perfect after the three categories: cleared exactly when a details
\* entry is appended.
IsPerfect(coverage) == Details(coverage) = << >>

\* f"{short_path}: {', '.join(details)}"
FailedLine(file_path, coverage) ==
    Str(ShortPath(file_path)) \o ": " \o Join(Details(coverage), ", ")

(***************************************************************************)
(* The program.                                                            *)
(***************************************************************************)
Init ==
    /\ fileState \in FileStates
    /\ data \in (IF fileState = "ok" THEN Reports ELSE {<< >>})
    /\ pc = "open"
    /\ idx = 1
    /\ failed_files = << >>
    /\ line_idx = 1
    /\ out = << >>
    /\ err = "none"
    /\ exitStatus = Running

\* An exception that nothing catches: the traceback goes to standard error
\* and the process ends with status 1.
Raise(exception) ==
    /\ err' = exception
    /\ exitStatus' = ExitFailure
    /\ pc' = "exit"

\* Variant of Load: the handler of FileNotFoundError ends with sys.exit(1).
Load_ExitsOne ==
    /\ pc = "open"
    /\ CASE fileState = "absent" ->
                /\ out' = Append(out, NotFoundMsg)
                /\ exitStatus' = ExitFailure
                /\ pc' = "exit"
                /\ UNCHANGED err
         [] fileState = "unreadable" ->
                /\ Raise("PermissionError")
                /\ UNCHANGED out
         [] fileState = "invalid_json" ->
                /\ Raise("JSONDecodeError")
                /\ UNCHANGED out
         [] fileState = "ok" ->
                /\ pc' = "loop"
                /\ UNCHANGED <<out, err, exitStatus>>
    /\ UNCHANGED <<fileState, data, idx, failed_files, line_idx>>

\* Variant of Load: the handler catches every exception, except Exception.
Load_CatchesAll ==
    /\ pc = "open"
    /\ IF fileState = "ok"
       THEN /\ pc' = "loop"
            /\ UNCHANGED <<out, err, exitStatus>>
       ELSE /\ out' = Append(out, NotFoundMsg)
            /\ exitStatus' = ExitSuccess
            /\ pc' = "exit"
            /\ UNCHANGED err
    /\ UNCHANGED <<fileState, data, idx, failed_files, line_idx>>

\* open() and json.load(): only FileNotFoundError is caught.
Load ==
    /\ pc = "open"
    /\ CASE fileState = "absent" ->
                /\ out' = Append(out, NotFoundMsg)
                /\ exitStatus' = ExitSuccess
                /\ pc' = "exit"
                /\ UNCHANGED err
         [] fileState = "unreadable" ->
                /\ Raise("PermissionError")
                /\ UNCHANGED out
         [] fileState = "invalid_json" ->
                /\ Raise("JSONDecodeError")
                /\ UNCHANGED out
         [] fileState = "ok" ->
                /\ pc' = "loop"
                /\ UNCHANGED <<out, err, exitStatus>>
    /\ UNCHANGED <<fileState, data, idx, failed_files, line_idx>>

\* One iteration of the loop over data.items().
EvaluateFile ==
    /\ pc = "loop"
    /\ idx <= Len(data)
    /\ LET file_path == data[idx].file_path
           coverage == data[idx].coverage
       IN  IF MissingKey(coverage) # "none"
           THEN /\ Raise("KeyError")
                /\ UNCHANGED <<idx, failed_files>>
           ELSE /\ failed_files' =
                      IF IsPerfect(coverage) THEN failed_files
                      ELSE Append(failed_files, FailedLine(file_path, coverage))
                /\ idx' = idx + 1
                /\ UNCHANGED <<pc, err, exitStatus>>
    /\ UNCHANGED <<fileState, data, line_idx, out>>

\* The loop is over and failed_files is not empty: the header.
PrintHeader ==
    /\ pc = "loop"
    /\ idx > Len(data)
    /\ failed_files # << >>
    /\ out' = Append(out, FailureHeader)
    /\ pc' = "lines"
    /\ UNCHANGED <<fileState, data, idx, failed_files, line_idx, err, exitStatus>>

\* One iteration of the loop over failed_files.
PrintLine ==
    /\ pc = "lines"
    /\ line_idx <= Len(failed_files)
    /\ out' = Append(out, failed_files[line_idx])
    /\ line_idx' = line_idx + 1
    /\ UNCHANGED <<fileState, data, pc, idx, failed_files, err, exitStatus>>

\* Variant of ExitFailed: sys.exit(1) is inside the loop over failed_files.
ExitFailed_InsideLoop ==
    /\ pc = "lines"
    /\ line_idx > 1
    /\ exitStatus' = ExitFailure
    /\ pc' = "exit"
    /\ UNCHANGED <<fileState, data, idx, failed_files, line_idx, out, err>>

\* Variant of ExitFailed: no sys.exit(1) and no else, the success message
\* follows the lines.
ExitFailed_FallsThrough ==
    /\ pc = "lines"
    /\ line_idx > Len(failed_files)
    /\ out' = Append(out, SuccessMsg)
    /\ exitStatus' = ExitSuccess
    /\ pc' = "exit"
    /\ UNCHANGED <<fileState, data, idx, failed_files, line_idx, err>>

\* sys.exit(1)
ExitFailed ==
    /\ pc = "lines"
    /\ line_idx > Len(failed_files)
    /\ exitStatus' = ExitFailure
    /\ pc' = "exit"
    /\ UNCHANGED <<fileState, data, idx, failed_files, line_idx, out, err>>

\* The loop is over and failed_files is empty: the success message, and the
\* function returns.
PrintSuccess ==
    /\ pc = "loop"
    /\ idx > Len(data)
    /\ failed_files = << >>
    /\ out' = Append(out, SuccessMsg)
    /\ exitStatus' = ExitSuccess
    /\ pc' = "exit"
    /\ UNCHANGED <<fileState, data, idx, failed_files, line_idx, err>>

Next ==
    \/ Load
    \/ EvaluateFile
    \/ PrintHeader
    \/ PrintLine
    \/ ExitFailed
    \/ PrintSuccess

Spec == Init /\ [][Next]_vars

(***************************************************************************)
(* The run as a function of the report file: what check_coverage prints,   *)
(* the exception it ends with and its exit status.                         *)
(***************************************************************************)
\* failed_files after the loop over the records of a report.
RECURSIVE FailedFiles(_)
FailedFiles(report) ==
    IF report = << >> THEN << >>
    ELSE (IF IsPerfect(report[1].coverage) THEN << >>
          ELSE <<FailedLine(report[1].file_path, report[1].coverage)>>)
         \o FailedFiles(Tail(report))

RunResult(state, report) ==
    CASE state = "absent" ->
            [out |-> <<NotFoundMsg>>, err |-> "none", exitStatus |-> ExitSuccess]
      [] state = "unreadable" ->
            [out |-> << >>, err |-> "PermissionError", exitStatus |-> ExitFailure]
      [] state = "invalid_json" ->
            [out |-> << >>, err |-> "JSONDecodeError", exitStatus |-> ExitFailure]
      [] state = "ok" ->
            IF \E i \in DOMAIN report : MissingKey(report[i].coverage) # "none"
            THEN [out |-> << >>, err |-> "KeyError", exitStatus |-> ExitFailure]
            ELSE IF FailedFiles(report) # << >>
            THEN [out |-> <<FailureHeader>> \o FailedFiles(report),
                  err |-> "none", exitStatus |-> ExitFailure]
            ELSE [out |-> <<SuccessMsg>>, err |-> "none", exitStatus |-> ExitSuccess]

(***************************************************************************)
(* Vocabulary of the properties.                                           *)
(***************************************************************************)
\* The process has ended.
Terminated == pc = "exit"

\* A record with the three keys that are evaluated; a report of such records.
WellFormedRecord(c) == {"s", "b", "f"} \subseteq c.keys
WellFormedReport == \A i \in DOMAIN data : WellFormedRecord(data[i].coverage)

\* The run read a well-formed report.
WellFormedRun == fileState = "ok" /\ WellFormedReport

\* The units of a record, per category, as <<id, hit count>> pairs.
StatementHits(c) == { <<i, c.s[i]>> : i \in DOMAIN c.s }
ArmHits(c) ==
    UNION { { << <<g, a>>, c.b[g][a] >> : a \in DOMAIN c.b[g] } : g \in DOMAIN c.b }
FunctionHits(c) == { <<i, c.f[i]>> : i \in DOMAIN c.f }

CategoryNames == <<"Statements", "Branches", "Functions">>
CategoryHits(c) == <<StatementHits(c), ArmHits(c), FunctionHits(c)>>

TotalOf(hits) == Cardinality(hits)
CoveredOf(hits) == Cardinality({ u \in hits : u[2] > 0 })
HasZero(hits) == \E u \in hits : u[2] = 0

\* The k-th smallest element of a set of numbers.
Nth(S, k) == CHOOSE i \in S : Cardinality({ j \in S : j < i }) = k - 1

\* The elements of a set of numbers in increasing order.
Ascending(S) == [k \in 1..Cardinality(S) |-> Nth(S, k)]

\* The categories of a record in which some unit has count 0.
DeficientCategories(c) == { j \in 1..3 : HasZero(CategoryHits(c)[j]) }

\* A file is deficient iff some statement, branch arm or function has count 0.
Deficient(c) == DeficientCategories(c) # {}

\* The index of the deficient records of the report.
DeficientFiles == { i \in DOMAIN data : Deficient(data[i].coverage) }

\* "<CategoryName>: <covered>/<total>" of category j of a record.
ExpectedLabel(c, j) ==
    CategoryNames[j] \o ": " \o ToString(CoveredOf(CategoryHits(c)[j]))
        \o "/" \o ToString(TotalOf(CategoryHits(c)[j]))

\* The labels of the categories cats, in the order Statements, Branches,
\* Functions, joined by ", ".
JoinedLabels(c, cats) ==
    LET order == Ascending(cats)
        lab(k) == ExpectedLabel(c, order[k])
    IN  IF cats = {} THEN ""
        ELSE IF Cardinality(cats) = 1 THEN lab(1)
        ELSE IF Cardinality(cats) = 2 THEN lab(1) \o ", " \o lab(2)
        ELSE lab(1) \o ", " \o lab(2) \o ", " \o lab(3)

\* The positions at which "backend/" occurs in a path.
Occurrences(path) ==
    { i \in 1..Len(path) :
        /\ i + Len(BackendMarker) - 1 <= Len(path)
        /\ \A j \in 1..Len(BackendMarker) : path[i + j - 1] = BackendMarker[j] }

\* The path without everything up to and including the occurrence at i.
After(path, i) == [j \in 1..(Len(path) - (i + Len(BackendMarker) - 1)) |->
                    path[i + Len(BackendMarker) - 1 + j]]

AfterFirstOccurrence(path) ==
    IF Occurrences(path) = {} THEN path
    ELSE After(path, CHOOSE i \in Occurrences(path) : \A j \in Occurrences(path) : i <= j)

AfterLastOccurrence(path) ==
    IF Occurrences(path) = {} THEN path
    ELSE After(path, CHOOSE i \in Occurrences(path) : \A j \in Occurrences(path) : i >= j)

\* The line of a deficient record: its display path, then its labels.
ExpectedLine(rec) ==
    Str(ShortPath(rec.file_path)) \o ": "
        \o JoinedLabels(rec.coverage, DeficientCategories(rec.coverage))

\* The lines of the deficient records among the first n of the report, in
\* the report's order.
ExpectedLines(n) ==
    LET order == Ascending({ i \in DeficientFiles : i <= n })
    IN  [k \in 1..Len(order) |-> ExpectedLine(data[order[k]])]

\* The lines printed after the header.
PrintedLines == IF out = << >> THEN << >> ELSE Tail(out)

(***************************************************************************)
(* Properties.                                                             *)
(***************************************************************************)
\* C1: a run on a well-formed report in which some statement, branch arm or
\* function has count 0 ends with exit status 1 and has printed the header
\* followed by the lines of exactly the deficient files (those with a unit of
\* count 0), each with covered/total of each deficient category, covered
\* being the number of units with count > 0 and total the number of units.
C1_DeficientReportFails ==
    (Terminated /\ WellFormedRun /\ DeficientFiles # {}) =>
        /\ exitStatus = ExitFailure
        /\ err = "none"
        /\ out = <<FailureHeader>> \o ExpectedLines(Len(data))
        /\ Len(out) = 1 + Cardinality(DeficientFiles)

\* A failing run on a report with a deficient and a fully covered file, the
\* latter with a unit hit more than once.
C1_Witness ==
    /\ Terminated /\ WellFormedRun
    /\ exitStatus = ExitFailure
    /\ \E i, j \in DOMAIN data :
          /\ i \in DeficientFiles
          /\ j \notin DeficientFiles
          /\ \E u \in StatementHits(data[j].coverage) \cup FunctionHits(data[j].coverage) :
                u[2] > 1

\* C2: a run on a well-formed report in which every count is > 0 (or the
\* category is empty), the report without files included, prints the
\* success message and nothing else, and ends with exit status 0.
C2_CoveredReportPasses ==
    (Terminated /\ WellFormedRun /\ DeficientFiles = {}) =>
        /\ out = <<SuccessMsg>>
        /\ err = "none"
        /\ exitStatus = ExitSuccess

\* A passing run on a report with a covered statement and an empty category.
C2_Witness ==
    /\ Terminated /\ WellFormedRun
    /\ out = <<SuccessMsg>>
    /\ \E i \in DOMAIN data :
          /\ \E u \in StatementHits(data[i].coverage) : u[2] = 1
          /\ ArmHits(data[i].coverage) = {}
    /\ \E i \in DOMAIN data : data[i].coverage.b # << >>

\* The line the program builds for a record, with the given display path.
LineWithPath(path, c) == Str(path) \o ": " \o Join(Details(c), ", ")

\* C3 as stated: the path shown in the line of every deficient file is the
\* file path without everything up to and including the first occurrence of
\* "backend/", and the whole path when it has no occurrence.
C3_StripsToFirstOccurrence ==
    (Terminated /\ WellFormedRun) =>
        \A k \in 1..Cardinality(DeficientFiles) :
            LET rec == data[Nth(DeficientFiles, k)]
            IN  out[k + 1] = LineWithPath(AfterFirstOccurrence(rec.file_path), rec.coverage)

\* C3 amended: the path shown in the line of every deficient file is the
\* file path without everything up to and including the last occurrence of
\* "backend/", and the whole path when it has no occurrence.
C3_StripsToLastOccurrence ==
    (Terminated /\ WellFormedRun) =>
        \A k \in 1..Cardinality(DeficientFiles) :
            LET rec == data[Nth(DeficientFiles, k)]
            IN  out[k + 1] = LineWithPath(AfterLastOccurrence(rec.file_path), rec.coverage)

\* The line of a deficient file whose path holds "backend/" twice has been
\* printed.
C3_Witness ==
    /\ Terminated /\ WellFormedRun
    /\ \E k \in 1..Cardinality(DeficientFiles) :
          /\ Cardinality(Occurrences(data[Nth(DeficientFiles, k)].file_path)) = 2
          /\ k + 1 \in DOMAIN out

\* The positions of out that hold one of the three outcomes: the not-found
\* message, the success message, the failure header.
OutcomesPrinted ==
    { i \in DOMAIN out : out[i] \in {NotFoundMsg, SuccessMsg, FailureHeader} }

\* C4 as stated: every run prints exactly one of the three outcomes, whatever
\* the state of the report file.
C4_OneOutcomeEveryRun ==
    Terminated => Cardinality(OutcomesPrinted) = 1

\* C4 amended: a run prints exactly one of the three outcomes when the report
\* file is absent or well-formed, and none of them when the file cannot be
\* read, is not JSON or has a record without the s, b or f key; no run
\* prints two.
C4_OneOutcomeUnlessMalformed ==
    /\ Cardinality(OutcomesPrinted) <= 1
    /\ Terminated =>
          Cardinality(OutcomesPrinted) =
              (IF fileState = "absent" \/ WellFormedRun THEN 1 ELSE 0)

\* Runs that have ended on a record without a key, after a deficient record
\* was evaluated.
C4_Witness ==
    /\ Terminated
    /\ fileState = "ok" /\ ~WellFormedReport
    /\ failed_files # << >>
    /\ out = << >>

\* C5: when the report file is absent the run evaluates no file, prints
\* "Coverage file not found." and nothing else, and ends with exit status 0.
C5_MissingReport ==
    fileState = "absent" =>
        /\ pc \in {"open", "exit"}
        /\ idx = 1 /\ failed_files = << >>
        /\ err = "none"
        /\ IF Terminated
           THEN out = <<NotFoundMsg>> /\ exitStatus = ExitSuccess
           ELSE out = << >> /\ exitStatus = Running

\* The run on an absent report file has ended.
C5_Witness ==
    fileState = "absent" /\ Terminated /\ out # << >>

\* The report without the l collections.
StripLines(report) ==
    [i \in DOMAIN report |->
        [report[i] EXCEPT !.coverage =
            [@ EXCEPT !.l = << >>, !.keys = @ \ {"l"}]]]

NonEmptyCategories(c) == { j \in 1..3 : TotalOf(CategoryHits(c)[j]) > 0 }

\* The categories of a record that have units, not all of them covered.
ShortCategories(c) ==
    { j \in 1..3 : /\ TotalOf(CategoryHits(c)[j]) > 0
                   /\ CoveredOf(CategoryHits(c)[j]) < TotalOf(CategoryHits(c)[j]) }

\* C7: a category without units never marks a file deficient and never
\* gives a label: the files listed are those with a short category that has
\* units, and the labels of a line are labels of categories that have units.
C7_VacuousPass ==
    (Terminated /\ WellFormedRun) =>
        LET marked == { i \in DOMAIN data : ShortCategories(data[i].coverage) # {} }
        IN  /\ Len(PrintedLines) = Cardinality(marked)
            /\ \A k \in 1..Cardinality(marked) :
                  LET rec == data[Nth(marked, k)]
                  IN  \E cats \in SUBSET NonEmptyCategories(rec.coverage) :
                        PrintedLines[k] =
                            Str(ShortPath(rec.file_path)) \o ": "
                                \o JoinedLabels(rec.coverage, cats)

\* A deficient file whose branch groups all have no arm has been listed.
C7_Witness ==
    /\ Terminated /\ WellFormedRun
    /\ \E i \in DeficientFiles :
          /\ data[i].coverage.b # << >>
          /\ ArmHits(data[i].coverage) = {}
    /\ Len(out) > 1

\* The report file exists and is malformed.
Malformed ==
    \/ fileState = "invalid_json"
    \/ fileState = "ok" /\ ~WellFormedReport

\* C8: a run on a malformed report (invalid JSON, or a record without the
\* s, b or f key) ends with an uncaught exception and a non-zero exit
\* status, having printed nothing; a run that ends with status 0 without a
\* well-formed report is a run on an absent file.
C8_MalformedPropagates ==
    Terminated =>
        /\ Malformed =>
              /\ err \in {"JSONDecodeError", "KeyError"}
              /\ exitStatus # ExitSuccess
              /\ out = << >>
        /\ (~WellFormedRun /\ (exitStatus = ExitSuccess \/ err = "none")) =>
              fileState = "absent"

\* A run has ended with KeyError on a record that follows a deficient one.
C8_Witness ==
    /\ Terminated
    /\ err = "KeyError"
    /\ idx > 1
    /\ failed_files # << >>

\* C9: the line of a deficient file holds the labels of its short categories
\* (units, not all covered) and no other, in the order Statements, Branches,
\* Functions, joined by ", ", each "<CategoryName>: <covered>/<total>"; every
\* line has a label.
C9_LabelsOfALine ==
    fileState = "ok" =>
        LET marked == { i \in 1..(idx - 1) : ShortCategories(data[i].coverage) # {} }
        IN  /\ Len(failed_files) = Cardinality(marked)
            /\ \A k \in 1..Cardinality(marked) :
                  LET rec == data[Nth(marked, k)]
                  IN  failed_files[k] =
                          Str(ShortPath(rec.file_path)) \o ": "
                              \o JoinedLabels(rec.coverage, ShortCategories(rec.coverage))

\* The line of a file that is short in all three categories has been built.
C9_Witness ==
    /\ fileState = "ok"
    /\ \E i \in 1..(idx - 1) : Cardinality(ShortCategories(data[i].coverage)) = 3
    /\ failed_files # << >>

\* C10: nothing is printed before every file of the report is evaluated; on
\* a failing run the header comes first, then the lines of the deficient
\* files, one each, in the order of the report; the process exits with
\* status 1 after the last of them.
C10_OutputOrder ==
    fileState = "ok" =>
        /\ out # << >> => idx = Len(data) + 1
        /\ pc = "lines" =>
              /\ out = <<FailureHeader>> \o SubSeq(failed_files, 1, line_idx - 1)
              /\ exitStatus = Running
        /\ (Terminated /\ exitStatus = ExitFailure /\ err = "none") =>
              /\ failed_files # << >>
              /\ out = <<FailureHeader>> \o failed_files
        /\ (idx = Len(data) + 1 /\ WellFormedReport) =>
              /\ Len(failed_files) = Cardinality(DeficientFiles)
              /\ \A k \in 1..Cardinality(DeficientFiles) :
                    LET rec == data[Nth(DeficientFiles, k)]
                    IN  failed_files[k] = FailedLine(rec.file_path, rec.coverage)

\* A failing run has ended after the lines of two deficient files.
C10_Witness ==
    /\ Terminated /\ WellFormedRun
    /\ exitStatus = ExitFailure
    /\ Cardinality(DeficientFiles) = 2
    /\ Len(out) = 3
====
